---- MODULE Spec2Model ----
(***************************************************************************)
(* The Notifier of skroutz/downloader: the dispatch loop, the worker pool, *)
(* the delivery algorithm (Notify), the recovery scan                      *)
(* (collectRogueCallbacks) and the callback payload.  The store (package   *)
(* storage) and the job decoder (package job) are not part of the sources  *)
(* at hand; they are modelled from their contract in the specification.    *)
(***************************************************************************)
EXTENDS Integers, Sequences, FiniteSets, TLC

(* ------------------------------ bounds -------------------------------- *)

\* Number of job records the store starts with.
NumJobs == 2

\* Worker goroutines at most (the concurrency argument of New is 1 up to
\* this; New rejects <= 0).
Concurrency == 2

\* Process crashes (each followed by a restart) one behaviour may hold.
MaxCrashes == 1

(* ----------------------------- constants ------------------------------ *)

\* maxCallbackRetries with one attempt too many.
maxCallbackRetriesOff == 2 + 1

maxCallbackRetries == 2

IDSeq == <<"j1", "j2", "j3", "j4">>

Jobs == {IDSeq[i] : i \in 1..NumJobs}

Workers == 1..Concurrency

\* job.State
StatePending == "Pending"

StateInProgress == "InProgress"

StateSuccess == "Success"

StateFailed == "Failed"

States == {StatePending, StateInProgress, StateSuccess, StateFailed}

(* ------------------------------- state -------------------------------- *)

VARIABLES
    store,      \* durable: job-record table, a function from the IDs present
    cbQueue,    \* durable: pending-callback queue, a sequence of job IDs
    dpc,        \* dispatcher (Start): position in its code
    djob,       \* dispatcher: the job PopCallback returned, until handed off
    scanTodo,   \* collectRogueCallbacks: keys the scan has still to visit
    closed,     \* cbChan has been closed
    shut,       \* closeChan: "run", "requested", "received", "completed"
    wpc,        \* worker: position in its code
    wjob,       \* worker: its copy of the job (the j of Notify)
    wres,       \* worker: the response of its POST
    crashes,    \* crashes so far
    hist,       \* history: per job, the outcome of each Notify call
    posts,      \* history: per job, the POSTs sent to its callback URL
    recovered,  \* history: per job, the re-enqueues by recovery scans
    got2xx,     \* history: jobs one of whose POSTs was answered 2xx
    removed,    \* history: jobs removed by Notify after a 2xx
    lateHands,  \* history: jobs handed to a worker after the request
    rogue,      \* history: the InProgress records as the running scan found
                \* them at its start
    scanSkipped,\* history: InProgress keys the latest scan left out on a
                \* store error
    inflight,   \* history: jobs PopCallback returned in this run whose
                \* Notify call has not yet run to its end
    DownloadURL,\* Notifier.DownloadURL
    concurrency,\* Notifier.concurrency: the workers Start launches
    probe       \* the pure functions' input and result

durable == <<store, cbQueue>>

disp == <<dpc, djob, scanTodo, closed, shut>>

work == <<wpc, wjob, wres>>

ghost == <<hist, posts, recovered, got2xx, removed, lateHands, rogue,
           scanSkipped, inflight>>

pure == <<DownloadURL, concurrency, probe>>

vars == <<store, cbQueue, dpc, djob, scanTodo, closed, shut, wpc, wjob, wres,
          crashes, hist, posts, recovered, got2xx, removed, lateHands, rogue,
          scanSkipped, inflight, DownloadURL, concurrency, probe>>

\* The worker goroutines of this Notifier.
Pool == 1..concurrency

(* ----------------------------- job record ----------------------------- *)

\* The zero value job.Job{}.
NoJob ==
    [ID |-> "", DownloadState |-> "", DownloadMeta |-> "", Extra |-> "",
     CallbackState |-> "", CallbackMeta |-> "", CallbackCount |-> 0]

\* A record as the submission path and the processor leave it: the download
\* has an outcome, the callback has not been attempted.
NewJob(id, ds) ==
    [ID |-> id, DownloadState |-> ds,
     DownloadMeta |-> IF ds = StateFailed THEN "timeout" ELSE "",
     Extra |-> "",
     CallbackState |-> StatePending, CallbackMeta |-> "", CallbackCount |-> 0]

(* -------------------------- store (contract) -------------------------- *)

HasJob(st, id) == id \in DOMAIN st

\* SaveJob: persists the full current state of the record (overwrite).
SaveJob(st, j) ==
    [k \in (DOMAIN st) \cup {j.ID} |-> IF k = j.ID THEN j ELSE st[k]]

\* GetJob: the current record by ID.
GetJob(st, id) == st[id]

\* RemoveJob: deletes the record.
RemoveJob(st, id) == [k \in (DOMAIN st) \ {id} |-> st[k]]

\* QueuePendingCallback: the job goes back to Pending, is saved and its ID
\* is pushed on the pending-callback queue.
QueuedJob(j) == [j EXCEPT !.CallbackState = StatePending]

QueuePendingCallbackStore(st, j) == SaveJob(st, QueuedJob(j))

QueuePendingCallbackQueue(q, j) == Append(q, j.ID)

\* Occurrences of a job in the pending-callback queue.
InQueue(q, id) == Cardinality({i \in 1..Len(q) : q[i] = id})

(* ------------------------- callback payload --------------------------- *)

\* A Go string is modelled as the sequence of its tokens, "" as << >>.
\* path.Clean on a path split at its slashes: empty and "." elements go, a
\* ".." takes the element before it (at the root it goes; at the head of a
\* relative path it stays).
RECURSIVE CleanSegs(_, _, _)
CleanSegs(rooted, done, rest) ==
    IF rest = << >> THEN done
    ELSE LET s == Head(rest)
             t == Tail(rest)
         IN  IF s = "" \/ s = "." THEN CleanSegs(rooted, done, t)
             ELSE IF s = ".."
                  THEN IF Len(done) > 0 /\ done[Len(done)] # ".."
                       THEN CleanSegs(rooted, SubSeq(done, 1, Len(done) - 1), t)
                       ELSE IF rooted THEN CleanSegs(rooted, done, t)
                            ELSE CleanSegs(rooted, Append(done, s), t)
                  ELSE CleanSegs(rooted, Append(done, s), t)

\* path.Join(p, id): empty elements are ignored, the rest joined by a slash
\* and cleaned.  A path is [rooted, segs]; the empty path is unrooted, << >>,
\* and a relative path that cleans to nothing is ".".
PathJoin(p, id) ==
    LET all == IF id = "" THEN p.segs ELSE Append(p.segs, id)
        cleaned == CleanSegs(p.rooted, << >>, all)
    IN  [rooted |-> p.rooted,
         segs |-> IF ~p.rooted /\ all # << >> /\ cleaned = << >>
                  THEN <<".">> ELSE cleaned]

RECURSIVE SlashSegs(_)
SlashSegs(segs) ==
    IF segs = << >> THEN << >>
    ELSE <<"/", Head(segs)>> \o SlashSegs(Tail(segs))

\* url.URL.String() of scheme://host/path: a path that is not rooted gets a
\* leading slash when the URL has a host.
URLString(u) ==
    <<u.Scheme, "://", u.Host>> \o
        (IF u.Path.segs = << >>
         THEN (IF u.Path.rooted THEN <<"/">> ELSE << >>)
         ELSE SlashSegs(u.Path.segs))

\* jobDownloadURL with the success test taken out.
jobDownloadURLAlways(j, downloadURL) ==
    URLString([downloadURL EXCEPT !.Path = PathJoin(downloadURL.Path, j.ID)])

\* jobDownloadURL: downloadURL is a copy, the Notifier's URL is not changed.
jobDownloadURL(j, downloadURL) ==
    IF j.DownloadState # StateSuccess
    THEN << >>
    ELSE URLString([downloadURL EXCEPT !.Path = PathJoin(downloadURL.Path, j.ID)])

\* The zero value CallbackInfo{}.
NoCallbackInfo ==
    [Success |-> FALSE, Error |-> "", Extra |-> "", DownloadURL |-> << >>]

\* getCallbackInfo without the test of the DownloadState.
getCallbackInfoAny(j, downloadURL) ==
    [err |-> "",
     info |-> [Success |-> j.DownloadState = StateSuccess,
               Error |-> j.DownloadMeta,
               Extra |-> j.Extra,
               DownloadURL |-> jobDownloadURL(j, downloadURL)]]

\* getCallbackInfo: [err, info]; err is "" for a nil error.
getCallbackInfo(j, downloadURL) ==
    IF j.DownloadState # StateSuccess /\ j.DownloadState # StateFailed
    THEN [err |-> "Invalid job download state", info |-> NoCallbackInfo]
    ELSE [err |-> "",
          info |-> [Success |-> j.DownloadState = StateSuccess,
                    Error |-> j.DownloadMeta,
                    Extra |-> j.Extra,
                    DownloadURL |-> jobDownloadURL(j, downloadURL)]]

(* ------------------------- delivery (Notify) -------------------------- *)

\* What client.Post returns: a transport error, or a response with a status.
StatusCodes == {199, 200, 299, 300}

NoResponse == [err |-> FALSE, status |-> 0]

Responses ==
    {[err |-> TRUE, status |-> 0]} \cup
    {[err |-> FALSE, status |-> s] : s \in StatusCodes}

\* The test of Notify on the POST's result.
PostFailed(res) == res.err \/ res.status < 200 \/ res.status >= 300

\* err.Error() of a failed POST.
PostErrText(res) == IF res.err THEN "transport error" ELSE "Received Status"

markCbInProgress(j) ==
    [j EXCEPT !.CallbackState = StateInProgress, !.CallbackMeta = ""]

\* markCbFailed that forgets the reason.
markCbFailedNoMeta(j, meta) ==
    [j EXCEPT !.CallbackState = StateFailed, !.CallbackMeta = ""]

\* markCbFailed that starts the count again.
markCbFailedResetCount(j, meta) ==
    [j EXCEPT !.CallbackState = StateFailed, !.CallbackMeta = meta,
              !.CallbackCount = 0]

\* markCbFailed that leaves the CallbackState as it is.
markCbFailedKeepState(j, meta) == [j EXCEPT !.CallbackMeta = meta]

markCbFailed(j, meta) ==
    [j EXCEPT !.CallbackState = StateFailed, !.CallbackMeta = meta]

\* The test of retryOrFail: fail for good, or queue for another attempt.
RetriesExhausted(j) == j.CallbackCount >= maxCallbackRetries

\* A store write that fails leaves the store as it is.
Persist(ok, st) == IF ok THEN st ELSE store

\* The outcome of the running Notify call of a job replaces its "run" entry.
Outcome(id, o) == [hist EXCEPT ![id] = [@ EXCEPT ![Len(@)] = o]]

WorkerReturns(w) ==
    /\ wpc' = [wpc EXCEPT ![w] = "idle"]
    /\ wjob' = [wjob EXCEPT ![w] = NoJob]
    /\ wres' = [wres EXCEPT ![w] = NoResponse]
    /\ inflight' = inflight - 1

\* Notify going on to the delivery when markCbInProgress has failed.
NotifyBeginGoOn(w) ==
    /\ wpc[w] = "notify"
    /\ \E ok \in BOOLEAN :
         LET j == markCbInProgress(
                      [wjob[w] EXCEPT !.CallbackCount = @ + 1])
         IN  /\ store' = Persist(ok, SaveJob(store, j))
             /\ wpc' = [wpc EXCEPT ![w] = "deliver"]
             /\ wjob' = [wjob EXCEPT ![w] = j]
             /\ hist' = [hist EXCEPT ![j.ID] =
                             Append(@, IF ok THEN "run" ELSE "abort")]
             /\ UNCHANGED <<wres, inflight>>
    /\ UNCHANGED <<cbQueue, disp, crashes, posts, recovered, got2xx, removed,
                   lateHands, rogue, scanSkipped, pure>>

\* Notify, to the return of markCbInProgress: the count goes up on the
\* worker's copy, the copy is marked InProgress and saved.
NotifyBegin(w) ==
    /\ wpc[w] = "notify"
    /\ \E ok \in BOOLEAN :
         LET j == markCbInProgress(
                      [wjob[w] EXCEPT !.CallbackCount = @ + 1])
         IN  /\ store' = Persist(ok, SaveJob(store, j))
             /\ IF ok
                THEN /\ wpc' = [wpc EXCEPT ![w] = "deliver"]
                     /\ wjob' = [wjob EXCEPT ![w] = j]
                     /\ hist' = [hist EXCEPT ![j.ID] = Append(@, "run")]
                     /\ UNCHANGED <<wres, inflight>>
                ELSE /\ WorkerReturns(w)
                     /\ hist' = [hist EXCEPT ![j.ID] = Append(@, "abort")]
    /\ UNCHANGED <<cbQueue, disp, crashes, posts, recovered, got2xx, removed,
                   lateHands, rogue, scanSkipped, pure>>

\* Notify, from getCallbackInfo to the return of client.Post.  A job that is
\* not eligible is marked Failed at once, whatever its count.  (json.Marshal
\* of a CallbackInfo, two strings, a bool and a string, does not fail.)
NotifyDeliver(w) ==
    /\ wpc[w] = "deliver"
    /\ LET j == wjob[w]
           cb == getCallbackInfo(j, DownloadURL)
       IN  IF cb.err # ""
           THEN \E ok \in BOOLEAN :
                  /\ store' = Persist(ok, SaveJob(store, markCbFailed(j, cb.err)))
                  /\ hist' = Outcome(j.ID, IF ok THEN "inelig" ELSE "perr")
                  /\ WorkerReturns(w)
                  /\ UNCHANGED <<posts, got2xx>>
           ELSE \E res \in Responses :
                  /\ wres' = [wres EXCEPT ![w] = res]
                  /\ wpc' = [wpc EXCEPT ![w] = "finish"]
                  /\ posts' = [posts EXCEPT ![j.ID] = @ + 1]
                  /\ got2xx' = IF PostFailed(res) THEN got2xx
                               ELSE got2xx \cup {j.ID}
                  /\ UNCHANGED <<store, wjob, hist, inflight>>
    /\ UNCHANGED <<cbQueue, disp, crashes, recovered, removed, lateHands,
                   rogue, scanSkipped, pure>>

\* The tail of Notify with the record removed when the retries are used up.
NotifyTailStoreDrop(st, j, res) ==
    IF ~PostFailed(res)
    THEN RemoveJob(st, j.ID)
    ELSE IF RetriesExhausted(j)
         THEN RemoveJob(st, j.ID)
         ELSE QueuePendingCallbackStore(st, j)

\* The tail of Notify with the record of a delivered job marked Success and
\* saved, not removed.
NotifyTailStoreKeep(st, j, res) ==
    IF ~PostFailed(res)
    THEN SaveJob(st, [j EXCEPT !.CallbackState = StateSuccess])
    ELSE IF RetriesExhausted(j)
         THEN SaveJob(st, markCbFailed(j, PostErrText(res)))
         ELSE QueuePendingCallbackStore(st, j)

\* The store after the tail of Notify: RemoveJob on a 2xx; on a failed POST
\* retryOrFail, which marks the job Failed or queues it again.
NotifyTailStore(st, j, res) ==
    IF ~PostFailed(res)
    THEN RemoveJob(st, j.ID)
    ELSE IF RetriesExhausted(j)
         THEN SaveJob(st, markCbFailed(j, PostErrText(res)))
         ELSE QueuePendingCallbackStore(st, j)

\* Notify, after client.Post: RemoveJob on a 2xx, retryOrFail otherwise.
NotifyFinish(w) ==
    /\ wpc[w] = "finish"
    /\ \E ok \in BOOLEAN :
         LET j == wjob[w]
             res == wres[w]
         IN  /\ store' = Persist(ok, NotifyTailStore(store, j, res))
             /\ cbQueue' = IF ok /\ PostFailed(res) /\ ~RetriesExhausted(j)
                           THEN QueuePendingCallbackQueue(cbQueue, j)
                           ELSE cbQueue
             /\ removed' = IF ok /\ ~PostFailed(res)
                           THEN removed \cup {j.ID} ELSE removed
             /\ hist' = Outcome(j.ID, IF ~ok THEN "perr"
                                      ELSE IF PostFailed(res) THEN "fail"
                                      ELSE "ok")
             /\ WorkerReturns(w)
    /\ UNCHANGED <<disp, crashes, posts, recovered, got2xx, lateHands, rogue,
                   scanSkipped, pure>>

(* ------------------- recovery (collectRogueCallbacks) ----------------- *)

\* The keys a scan enumerates.
ScanKeys(st) == DOMAIN st

\* The test of the scan on a key, and the same test against the wrong state.
IsRogueWrongState(st, k) ==
    HasJob(st, k) /\ st[k].CallbackState = StatePending

IsRogue(st, k) == HasJob(st, k) /\ st[k].CallbackState = StateInProgress

\* One key of the scan: a record whose CallbackState is InProgress is read
\* and queued again; a failing store call (HGet, GetJob or
\* QueuePendingCallback) is logged and the key is skipped.
ScanKey(k) ==
    /\ dpc = "scan"
    /\ k \in scanTodo
    /\ scanTodo' = scanTodo \ {k}
    /\ \E ok \in BOOLEAN :
         /\ scanSkipped' = IF ~ok /\ k \in DOMAIN rogue
                            THEN scanSkipped \cup {k} ELSE scanSkipped
         /\ IF ok /\ IsRogue(store, k)
            THEN LET jb == GetJob(store, k)
                 IN  /\ store' = QueuePendingCallbackStore(store, jb)
                     /\ cbQueue' = QueuePendingCallbackQueue(cbQueue, jb)
                     /\ recovered' = [recovered EXCEPT ![k] = @ + 1]
            ELSE UNCHANGED <<store, cbQueue, recovered>>
    /\ UNCHANGED <<dpc, djob, closed, shut, work, crashes, hist, posts, got2xx,
                   removed, lateHands, rogue, inflight, pure>>

\* The scan ends when the cursor is back at 0, or at once when Scan fails.
ScanEnd ==
    /\ dpc = "scan"
    /\ \E ok \in BOOLEAN : ok => scanTodo = {}
    /\ dpc' = "select"
    /\ scanTodo' = {}
    /\ scanSkipped' = scanSkipped \cup (scanTodo \cap DOMAIN rogue)
    /\ rogue' = << >>
    /\ UNCHANGED <<durable, djob, closed, shut, work, crashes, hist, posts,
                   recovered, got2xx, removed, lateHands, inflight, pure>>

(* -------------------------- dispatcher (Start) ------------------------ *)

\* The select of the loop: the close case when the requester is sending on
\* closeChan, the default case otherwise.
SelectClose ==
    /\ dpc = "select"
    /\ shut = "requested"
    /\ shut' = "received"
    /\ closed' = TRUE
    /\ dpc' = "wait"
    /\ UNCHANGED <<durable, djob, scanTodo, work, crashes, ghost, pure>>

SelectDefault ==
    /\ dpc = "select"
    /\ shut # "requested"
    /\ dpc' = "pop"
    /\ UNCHANGED <<durable, djob, scanTodo, closed, shut, work, crashes, ghost,
                   pure>>

\* PopCallback: the head of the queue is removed and its record returned;
\* ErrEmptyQueue on an empty queue; ErrRetryLater or another error
\* otherwise (among them: the record of the popped ID is gone).
PopCallbackJob ==
    /\ dpc = "pop"
    /\ cbQueue # << >>
    /\ HasJob(store, Head(cbQueue))
    /\ cbQueue' = Tail(cbQueue)
    /\ djob' = GetJob(store, Head(cbQueue))
    /\ dpc' = "send"
    /\ inflight' = inflight + 1
    /\ UNCHANGED <<store, scanTodo, closed, shut, work, crashes, hist, posts,
                   recovered, got2xx, removed, lateHands, rogue, scanSkipped,
                   pure>>

\* The error branch without the time.Sleep: straight on to the select.
PopCallbackErrNoSleep ==
    /\ dpc = "pop"
    /\ cbQueue' = IF cbQueue # << >> /\ ~HasJob(store, Head(cbQueue))
                  THEN Tail(cbQueue) ELSE cbQueue
    /\ dpc' = "select"
    /\ UNCHANGED <<store, djob, scanTodo, closed, shut, work, crashes, ghost,
                   pure>>

PopCallbackErr ==
    /\ dpc = "pop"
    /\ cbQueue' = IF cbQueue # << >> /\ ~HasJob(store, Head(cbQueue))
                  THEN Tail(cbQueue) ELSE cbQueue
    /\ dpc' = "sleep"
    /\ UNCHANGED <<store, djob, scanTodo, closed, shut, work, crashes, ghost,
                   pure>>

\* The backoff with the loop going on to PopCallback, past the select.
SleepNoSelect ==
    /\ dpc = "sleep"
    /\ dpc' = "pop"
    /\ UNCHANGED <<durable, djob, scanTodo, closed, shut, work, crashes, ghost,
                   pure>>

\* time.Sleep(time.Second); continue
Sleep ==
    /\ dpc = "sleep"
    /\ dpc' = "select"
    /\ UNCHANGED <<durable, djob, scanTodo, closed, shut, work, crashes, ghost,
                   pure>>

\* The handoff with the loop going on to PopCallback, past the select.
HandoffNoSelect(w) ==
    /\ dpc = "send"
    /\ wpc[w] = "idle"
    /\ ~closed
    /\ wjob' = [wjob EXCEPT ![w] = djob]
    /\ wpc' = [wpc EXCEPT ![w] = "notify"]
    /\ djob' = NoJob
    /\ dpc' = "pop"
    /\ lateHands' = IF shut # "run" THEN lateHands + 1 ELSE lateHands
    /\ UNCHANGED <<durable, scanTodo, closed, shut, wres, crashes, hist, posts,
                   recovered, got2xx, removed, rogue, scanSkipped, inflight,
                   pure>>

\* The send on a channel with a buffer: it returns with no worker at the
\* other end.
HandoffBuffered(w) ==
    /\ dpc = "send"
    /\ ~closed
    /\ djob' = NoJob
    /\ dpc' = "select"
    /\ UNCHANGED <<durable, scanTodo, closed, shut, work, crashes, ghost, pure>>

\* n.cbChan <- job meets a worker's receive of range n.cbChan: the channel
\* has no buffer, the send returns when a worker has taken the job.
Handoff(w) ==
    /\ dpc = "send"
    /\ wpc[w] = "idle"
    /\ ~closed
    /\ wjob' = [wjob EXCEPT ![w] = djob]
    /\ wpc' = [wpc EXCEPT ![w] = "notify"]
    /\ djob' = NoJob
    /\ dpc' = "select"
    /\ lateHands' = IF shut # "run" THEN lateHands + 1 ELSE lateHands
    /\ UNCHANGED <<durable, scanTodo, closed, shut, wres, crashes, hist, posts,
                   recovered, got2xx, removed, rogue, scanSkipped, inflight,
                   pure>>

\* range n.cbChan ends on the closed channel: the worker returns (wg.Done).
WorkerExit(w) ==
    /\ wpc[w] = "idle"
    /\ closed
    /\ wpc' = [wpc EXCEPT ![w] = "exited"]
    /\ UNCHANGED <<durable, disp, wjob, wres, crashes, ghost, pure>>

\* Start without the wg.Wait().
WaitWorkersNoWait ==
    /\ dpc = "wait"
    /\ dpc' = "signal"
    /\ UNCHANGED <<durable, djob, scanTodo, closed, shut, work, crashes, ghost,
                   pure>>

\* wg.Wait() returns when every worker has returned.
WaitWorkers ==
    /\ dpc = "wait"
    /\ \A w \in Pool : wpc[w] = "exited"
    /\ dpc' = "signal"
    /\ UNCHANGED <<durable, djob, scanTodo, closed, shut, work, crashes, ghost,
                   pure>>

\* closeChan <- struct{}{} meets the requester's receive; Start returns.
SignalDone ==
    /\ dpc = "signal"
    /\ shut' = "completed"
    /\ dpc' = "done"
    /\ UNCHANGED <<durable, djob, scanTodo, closed, work, crashes, ghost, pure>>

(* ---------------------------- environment ----------------------------- *)

\* The owner of the Notifier sends the shutdown signal on closeChan (the
\* send blocks until the dispatcher's select takes it).
RequestShutdown ==
    /\ shut = "run"
    /\ dpc # "done"
    /\ shut' = "requested"
    /\ UNCHANGED <<durable, dpc, djob, scanTodo, closed, work, crashes, ghost,
                   pure>>

\* The process dies and is started again: the store and the queue stay,
\* everything in memory is lost, Start runs from its beginning.
Interrupted(h) == [i \in 1..Len(h) |-> IF h[i] = "run" THEN "crash" ELSE h[i]]

Crash ==
    /\ crashes < MaxCrashes
    /\ crashes' = crashes + 1
    /\ dpc' = "scan"
    /\ djob' = NoJob
    /\ scanTodo' = ScanKeys(store)
    /\ closed' = FALSE
    /\ shut' = "run"
    /\ wpc' = [w \in Workers |-> "idle"]
    /\ wjob' = [w \in Workers |-> NoJob]
    /\ wres' = [w \in Workers |-> NoResponse]
    /\ hist' = [j \in Jobs |-> Interrupted(hist[j])]
    /\ lateHands' = 0
    /\ inflight' = 0
    /\ rogue' = [k \in {i \in DOMAIN store :
                            store[i].CallbackState = StateInProgress}
                   |-> store[k]]
    /\ scanSkipped' = {}
    /\ UNCHANGED <<durable, posts, recovered, got2xx, removed, pure>>

(* --------------------------- specification ---------------------------- *)

\* The base download URL New was given.
BaseURL ==
    [Scheme |-> "http", Host |-> "dl.example",
     Path |-> [rooted |-> TRUE, segs |-> <<"files">>]]

NoProbe == [op |-> "none", in |-> "", out |-> ""]

\* The store as the processor left it: every job has a record and is in the
\* pending-callback queue once; then New and the first lines of Start.
InitWith(st, url, c) ==
    /\ concurrency = c
    /\ store = st
    /\ cbQueue = [i \in 1..NumJobs |-> IDSeq[i]]
    /\ dpc = "scan"
    /\ djob = NoJob
    /\ scanTodo = Jobs
    /\ closed = FALSE
    /\ shut = "run"
    /\ wpc = [w \in Workers |-> "idle"]
    /\ wjob = [w \in Workers |-> NoJob]
    /\ wres = [w \in Workers |-> NoResponse]
    /\ crashes = 0
    /\ hist = [j \in Jobs |-> << >>]
    /\ posts = [j \in Jobs |-> 0]
    /\ recovered = [j \in Jobs |-> 0]
    /\ got2xx = {}
    /\ removed = {}
    /\ lateHands = 0
    /\ inflight = 0
    /\ rogue = << >>
    /\ scanSkipped = {}
    /\ DownloadURL = url
    /\ probe = NoProbe

Init ==
    \E ds \in [Jobs -> States], c \in Workers :
        InitWith([j \in Jobs |-> NewJob(j, ds[j])], BaseURL, c)

Next ==
    \/ ScanEnd
    \/ SelectClose
    \/ SelectDefault
    \/ PopCallbackJob
    \/ PopCallbackErr
    \/ Sleep
    \/ WaitWorkers
    \/ SignalDone
    \/ RequestShutdown
    \/ Crash
    \/ \E k \in Jobs : ScanKey(k)
    \/ \E w \in Pool : Handoff(w)
    \/ \E w \in Pool : WorkerExit(w)
    \/ \E w \in Pool : NotifyBegin(w)
    \/ \E w \in Pool : NotifyDeliver(w)
    \/ \E w \in Pool : NotifyFinish(w)

Spec == Init /\ [][Next]_vars

(* ------------------------- the live process --------------------------- *)

\* One run of the process, from Start to its return: no crash.
NextLive ==
    \/ ScanEnd
    \/ SelectClose
    \/ SelectDefault
    \/ PopCallbackJob
    \/ PopCallbackErr
    \/ Sleep
    \/ WaitWorkers
    \/ SignalDone
    \/ RequestShutdown
    \/ \E k \in Jobs : ScanKey(k)
    \/ \E w \in Pool : Handoff(w)
    \/ \E w \in Pool : WorkerExit(w)
    \/ \E w \in Pool : NotifyBegin(w)
    \/ \E w \in Pool : NotifyDeliver(w)
    \/ \E w \in Pool : NotifyFinish(w)

\* The Go scheduler runs every goroutine that can run.  Every store call
\* returns (the scan ends, PopCallback returns a job or an error, the
\* writes of Notify return); time.Sleep ends; client.Post returns, with a
\* response or with the error of the client's timeout; a send and a receive
\* waiting on the same channel meet (the select takes closeChan when the
\* requester is sending, an idle worker takes the job the dispatcher
\* sends, the requester takes the completion signal); range ends on a
\* closed channel; wg.Wait returns when the count is 0.  Nothing makes the
\* owner of the Notifier ask for the shutdown.
Fairness ==
    /\ WF_vars(ScanEnd)
    /\ WF_vars(SelectClose)
    /\ WF_vars(SelectDefault)
    /\ WF_vars(PopCallbackJob \/ PopCallbackErr)
    /\ WF_vars(Sleep)
    /\ WF_vars(\E w \in Pool : Handoff(w))
    /\ WF_vars(WaitWorkers)
    /\ WF_vars(SignalDone)
    /\ \A w \in Workers :
         /\ WF_vars(w \in Pool /\ WorkerExit(w))
         /\ WF_vars(w \in Pool /\ NotifyBegin(w))
         /\ WF_vars(w \in Pool /\ NotifyDeliver(w))
         /\ WF_vars(w \in Pool /\ NotifyFinish(w))

SpecLive == Init /\ [][NextLive]_vars /\ Fairness

(* ------------------ the payload and the decoder alone ----------------- *)

\* Base download URLs New accepts (url.ParseRequestURI keeps the path as it
\* is written): /files, /, no path, /a//b/.
BaseURLs ==
    {[Scheme |-> "http", Host |-> "dl.example", Path |-> p] :
        p \in {[rooted |-> TRUE, segs |-> <<"files">>],
               [rooted |-> TRUE, segs |-> << >>],
               [rooted |-> FALSE, segs |-> << >>],
               [rooted |-> TRUE, segs |-> <<"a", "", "b", "">>]}}

PayloadIDs == {"j1", "", ".."}

PayloadJobs ==
    {[NewJob(id, ds) EXCEPT !.DownloadMeta = m, !.Extra = e] :
        id \in PayloadIDs, ds \in States, m \in {"", "timeout"},
        e \in {"", "x"}}

ApplyGetCallbackInfo ==
    /\ probe = NoProbe
    /\ \E j \in PayloadJobs :
         probe' = [op |-> "payload", in |-> j,
                   out |-> getCallbackInfo(j, DownloadURL)]
    /\ UNCHANGED <<durable, disp, work, crashes, ghost, DownloadURL,
                   concurrency>>

\* A JSON value: its type, and the string, number or boolean it is.  A
\* string is the sequence of its tokens; a number with a fraction is a
\* "float" whose n is its integer part.
JV(t, str, n) == [t |-> t, s |-> str, n |-> n]

Absent == JV("absent", << >>, 0)

JNull == JV("null", << >>, 0)

JTrue == JV("bool", << >>, 1)

JStr(str) == JV("string", str, 0)

JInt(n) == JV("int", << >>, n)

JFloat(n) == JV("float", << >>, n)

\* A wire payload: text that is no JSON object, or an object's fields.
Payload(bad, aggr, url, cb, extra, timeout) ==
    [malformed |-> bad, aggr_id |-> aggr, url |-> url, callback_url |-> cb,
     extra |-> extra, download_timeout |-> timeout]

\* An absolute URI: scheme://rest.
IsAbsoluteURI(str) == Len(str) >= 3 /\ str[1] # "" /\ str[2] = "://"

\* UnmarshalJSON with a download_timeout of 0 let through.
UnmarshalJSONZero(p) ==
    IF p.malformed THEN "malformed"
    ELSE IF p.aggr_id.t # "string" THEN "aggr_id must be a string"
    ELSE IF p.aggr_id.s = << >> THEN "aggr_id is empty"
    ELSE IF p.url.t # "string" \/ ~IsAbsoluteURI(p.url.s) THEN "url"
    ELSE IF p.callback_url.t # "string" \/ ~IsAbsoluteURI(p.callback_url.s)
         THEN "callback_url"
    ELSE IF p.download_timeout.t = "absent" THEN ""
    ELSE IF p.download_timeout.t # "int" THEN "download_timeout"
    ELSE IF p.download_timeout.n < 0 THEN "download_timeout"
    ELSE ""

\* Job.UnmarshalJSON: the error it returns, "" for none.
UnmarshalJSON(p) ==
    IF p.malformed THEN "malformed"
    ELSE IF p.aggr_id.t # "string" THEN "aggr_id must be a string"
    ELSE IF p.aggr_id.s = << >> THEN "aggr_id is empty"
    ELSE IF p.url.t # "string" \/ ~IsAbsoluteURI(p.url.s) THEN "url"
    ELSE IF p.callback_url.t # "string" \/ ~IsAbsoluteURI(p.callback_url.s)
         THEN "callback_url"
    ELSE IF p.download_timeout.t = "absent" THEN ""
    ELSE IF p.download_timeout.t # "int" THEN "download_timeout"
    ELSE IF p.download_timeout.n <= 0 THEN "download_timeout"
    ELSE ""

Foo == <<"foo">>

HTTPFoobar == <<"http", "://", "foobar.com">>

HTTPFooBar == <<"http", "://", "foo.bar">>

Whatever == JStr(<<"whatever">>)

\* The table of TestUnmarshalJSON: the payload, and whether an error is
\* expected.  The empty text and {"foo"} are both the malformed payload;
\* {"foo":"bar"} is the object with none of the job's fields.
TestCases ==
    {<<Payload(TRUE, Absent, Absent, Absent, Absent, Absent), TRUE>>,
     <<Payload(FALSE, Absent, Absent, Absent, Absent, Absent), TRUE>>,
     <<Payload(FALSE, JStr(Foo), JStr(Foo), JStr(HTTPFooBar), Whatever,
               Absent), TRUE>>,
     <<Payload(FALSE, JStr(Foo), JStr(<< >>), JStr(HTTPFooBar), Whatever,
               Absent), TRUE>>,
     <<Payload(FALSE, JStr(Foo), JStr(HTTPFoobar), JStr(<<"fijfij">>),
               Whatever, Absent), TRUE>>,
     <<Payload(FALSE, JTrue, JStr(HTTPFoobar), JStr(HTTPFooBar), Whatever,
               Absent), TRUE>>,
     <<Payload(FALSE, JStr(<< >>), JStr(HTTPFoobar), JStr(HTTPFooBar),
               Whatever, Absent), TRUE>>,
     <<Payload(FALSE, JStr(Foo), JStr(HTTPFoobar), JStr(HTTPFooBar), Absent,
               Absent), FALSE>>,
     <<Payload(FALSE, JStr(Foo), JStr(HTTPFoobar), JStr(HTTPFooBar), Whatever,
               Absent), FALSE>>,
     <<Payload(FALSE, JStr(Foo), JStr(HTTPFoobar), JStr(HTTPFooBar),
               JStr(<< >>), Absent), FALSE>>,
     <<Payload(FALSE, JStr(Foo), JStr(HTTPFoobar), JStr(HTTPFooBar), Whatever,
               JInt(12)), FALSE>>,
     <<Payload(FALSE, JStr(Foo), JStr(HTTPFoobar), JStr(HTTPFooBar), Whatever,
               JNull), TRUE>>,
     <<Payload(FALSE, JStr(Foo), JStr(HTTPFoobar), JStr(HTTPFooBar), Whatever,
               JInt(0)), TRUE>>,
     <<Payload(FALSE, JStr(Foo), JStr(HTTPFoobar), JStr(HTTPFooBar), Whatever,
               JInt(-2)), TRUE>>,
     <<Payload(FALSE, JStr(Foo), JStr(HTTPFoobar), JStr(HTTPFooBar), Whatever,
               JStr(<<"4">>)), TRUE>>}

\* Payloads for the decoder: the fields' kinds combined.
DecodeInputs ==
    {Payload(FALSE, a, u, c, e, t) :
        a \in {Absent, JTrue, JStr(<< >>), JStr(Foo)},
        u \in {Absent, JStr(<< >>), JStr(Foo), JStr(HTTPFoobar)},
        c \in {Absent, JStr(<< >>), JStr(<<"fijfij">>), JStr(HTTPFooBar)},
        e \in {Absent, JStr(<< >>), Whatever},
        t \in {Absent, JNull, JInt(0), JInt(-2), JInt(12), JStr(<<"4">>),
               JFloat(1)}}
    \cup {Payload(TRUE, Absent, Absent, Absent, Absent, Absent)}

ApplyUnmarshalJSON ==
    /\ probe = NoProbe
    /\ \E p \in DecodeInputs :
         probe' = [op |-> "decode", in |-> p, out |-> UnmarshalJSON(p)]
    /\ UNCHANGED <<durable, disp, work, crashes, ghost, DownloadURL,
                   concurrency>>

InitPure ==
    \E url \in BaseURLs :
        InitWith([j \in Jobs |-> NewJob(j, StateSuccess)], url, Concurrency)

NextPure ==
    \/ ApplyGetCallbackInfo
    \/ ApplyUnmarshalJSON

SpecPure == InitPure /\ [][NextPure]_vars

(* ------------------------------ claims -------------------------------- *)

Last(h) == h[Len(h)]

\* Notify calls of a job whose InProgress write was persisted.
Persisted(h) == Cardinality({i \in 1..Len(h) : h[i] # "abort"})

Holder(id) == djob.ID = id \/ \E w \in Workers : wjob[w].ID = id

IsFailed(id) == HasJob(store, id) /\ store[id].CallbackState = StateFailed

\* C1 as stated: after N Notify calls on a job its CallbackCount is N, and
\* the job is Failed if and only if N >= 2 and the N-th call failed (the
\* delivery failed or the DownloadState was not eligible).  Jobs one of
\* whose store writes failed are left out.
C1_Original ==
    \A id \in Jobs :
        (/\ HasJob(store, id)
         /\ \A i \in 1..Len(hist[id]) : hist[id][i] \notin {"abort", "perr"})
        => /\ store[id].CallbackCount = Len(hist[id])
           /\ IsFailed(id) <=> /\ Len(hist[id]) >= 2
                               /\ Last(hist[id]) \in {"fail", "inelig"}

\* C2 as stated: once a POST for a job was answered 2xx, the store holds no
\* record of the job (looked at when no worker is working on the job).
C2_Original ==
    \A id \in got2xx : ~Holder(id) => ~HasJob(store, id)

\* C2 (amended): once Notify has removed a job's record after a 2xx (its
\* RemoveJob returned without error), the store holds no record of the job
\* from then on, whatever workers and recovery scans do later.  (A crash, or
\* a failing RemoveJob, between the 2xx and the removal leaves the record in
\* the store.)
C2_RemovedStaysAbsent ==
    \A id \in removed : ~HasJob(store, id)

C2_Witness ==
    \E id \in removed :
        /\ crashes > 0
        /\ dpc = "pop"
        /\ \E o \in Jobs : recovered[o] > 0

\* C3: when both of a job's two delivery attempts failed at the endpoint,
\* then after the second the record is in the store with CallbackState
\* Failed, CallbackCount 2 and a CallbackMeta that is not empty, and the job
\* is not in the pending-callback queue; and no step of the Notifier removes
\* or changes the record of a job that is Failed.
C3_FailedTwice ==
    /\ [](\A id \in Jobs :
            hist[id] = <<"fail", "fail">>
            => /\ IsFailed(id)
               /\ store[id].CallbackCount = 2
               /\ store[id].CallbackMeta # ""
               /\ InQueue(cbQueue, id) = 0)
    /\ [][\A id \in Jobs :
            IsFailed(id) => /\ HasJob(store', id)
                            /\ store'[id] = store[id]]_vars

C3_Witness ==
    \E id \in Jobs :
        /\ hist[id] = <<"fail", "fail">>
        /\ IsFailed(id)
        /\ store[id].CallbackMeta = "Received Status"

\* C4, as to the queue: a record that is InProgress when a recovery scan
\* runs is still in the store and is in the pending-callback queue exactly
\* once when the scan has gone past its key.
C4_Original ==
    \A k \in DOMAIN rogue :
        (dpc = "scan" /\ k \notin scanTodo)
        => /\ HasJob(store, k)
           /\ InQueue(cbQueue, k) = 1

\* C5: after a crash and the recovery scan of the restart, every job whose
\* record is in the store and not Failed is in the pending-callback queue
\* (or has been taken from it for delivery).  Jobs one of whose store calls
\* failed are left out.
C5_NoJobLost ==
    \A id \in Jobs :
        (/\ crashes > 0
         /\ dpc # "scan"
         /\ scanSkipped = {}
         /\ HasJob(store, id)
         /\ store[id].CallbackState # StateFailed
         /\ \A i \in 1..Len(hist[id]) : hist[id][i] \notin {"abort", "perr"})
        => InQueue(cbQueue, id) > 0 \/ Holder(id)

\* C6 as stated: a job's callback URL is POSTed at most 2 times and its
\* CallbackCount never exceeds 2, crashes and recovery scans included.
C6_Original ==
    \A id \in Jobs :
        /\ posts[id] <= 2
        /\ HasJob(store, id) => store[id].CallbackCount <= 2

\* C6 (amended): without a crash a job's callback URL is POSTed at most 2
\* times and its CallbackCount never exceeds 2; every re-enqueue of the job
\* by a recovery scan allows one more attempt: POSTs and CallbackCount are
\* at most 2 plus the number of times a scan has queued the job again.
C6_RetryCeiling ==
    \A id \in Jobs :
        /\ posts[id] <= 2 + recovered[id]
        /\ HasJob(store, id) => store[id].CallbackCount <= 2 + recovered[id]
        /\ posts[id] <= Len(hist[id])

C6_Witness ==
    \E a, b \in Jobs :
        /\ posts[a] = 3 /\ recovered[a] = 1
        /\ posts[b] = 2 /\ recovered[b] = 0 /\ IsFailed(b)

\* C7 as stated: once shutdown is requested, no Notify call begins.
C7_Original ==
    [][shut # "run" /\ crashes' = crashes
           => \A id \in Jobs : Len(hist'[id]) = Len(hist[id])]_vars

\* C7 (amended): once the dispatcher has received the shutdown signal (it
\* then closes the handoff channel at once) no job is handed to a worker
\* any more; between the request and its receipt at most one more job, the
\* one the dispatcher was popping or holding, is handed to a worker and
\* attempted.
C7_AtMostOneLate ==
    /\ lateHands <= 1
    /\ shut \in {"received", "completed"}
           => closed /\ djob = NoJob /\ dpc \in {"wait", "signal", "done"}
    /\ shut = "run" => lateHands = 0

C7_Witness ==
    /\ lateHands = 1
    /\ shut = "completed"

\* C8: when completion is signalled the handoff channel is closed, every
\* worker has returned, and every job PopCallback returned in this run has
\* been taken by a worker and its Notify call has run to its end.
C8_DrainBeforeDone ==
    (dpc = "done" \/ shut = "completed")
    => /\ closed
       /\ \A w \in Pool : wpc[w] = "exited" /\ wjob[w] = NoJob
       /\ djob = NoJob
       /\ inflight = 0

C8_Witness ==
    /\ shut = "completed"
    /\ crashes = 0
    /\ \A id \in Jobs : Len(hist[id]) > 0

\* C9: for a job that gets as far as the payload (its DownloadState is
\* Success or Failed), download_url is not empty exactly when the
\* DownloadState is Success, and is then the base URL with the job ID joined
\* to its path; success is (DownloadState = Success), error is the
\* DownloadMeta and extra is the Extra.
C9_Payload ==
    probe.op = "payload"
    => LET j == probe.in
           cb == probe.out
       IN  /\ cb.err = "" <=> j.DownloadState \in {StateSuccess, StateFailed}
           /\ cb.err = ""
              => /\ cb.info.DownloadURL # << >> <=> j.DownloadState = StateSuccess
                 /\ cb.info.Success = (j.DownloadState = StateSuccess)
                 /\ cb.info.Error = j.DownloadMeta
                 /\ cb.info.Extra = j.Extra
                 /\ j.DownloadState = StateSuccess
                    => /\ SubSeq(cb.info.DownloadURL, 1, 3)
                              = <<DownloadURL.Scheme, "://", DownloadURL.Host>>
                       /\ (j.ID = "j1" /\ DownloadURL = BaseURL)
                              => cb.info.DownloadURL
                                   = <<"http", "://", "dl.example", "/",
                                       "files", "/", "j1">>
                       /\ j.ID = "j1"
                              => LET n == Len(cb.info.DownloadURL)
                                 IN  SubSeq(cb.info.DownloadURL, n - 1, n)
                                         = <<"/", "j1">>

C9_Witness ==
    /\ probe.op = "payload"
    /\ probe.in.DownloadState = StateSuccess
    /\ probe.in.ID = "j1"
    /\ probe.in.Extra = "x"
    /\ probe.out.info.DownloadURL
           = <<"http", "://", "dl.example", "/", "a", "/", "b", "/", "j1">>

\* What the contract of the decoder lists as errors.
MustFail(p) ==
    \/ p.malformed
    \/ p.aggr_id.t # "string" \/ p.aggr_id.s = << >>
    \/ p.url.t # "string" \/ p.url.s = << >> \/ ~IsAbsoluteURI(p.url.s)
    \/ p.callback_url.t # "string" \/ p.callback_url.s = << >>
    \/ ~IsAbsoluteURI(p.callback_url.s)
    \/ /\ p.download_timeout.t # "absent"
       /\ \/ p.download_timeout.t # "int"
          \/ p.download_timeout.n = 0
          \/ p.download_timeout.n < 0

\* C10: decoding a payload returns an error exactly when the payload is
\* malformed, aggr_id is missing, no string or empty, url or callback_url is
\* missing, empty or no absolute URI, or download_timeout is there and is
\* null, zero, negative or no integer; and every case of the table of
\* TestUnmarshalJSON gets the result the table expects.
C10_Decode ==
    probe.op = "decode"
    => /\ (probe.out # "") <=> MustFail(probe.in)
       /\ \A tc \in TestCases : tc[1] = probe.in => (probe.out # "") = tc[2]

C10_Witness ==
    /\ probe.op = "decode"
    /\ probe.out = ""
    /\ probe.in.download_timeout = JInt(12)
    /\ probe.in.extra = Absent

\* The workers that are inside a Notify call.
Running(w) == wpc[w] \in {"notify", "deliver", "finish"}

\* A job's copies in flight: in the queue, with the dispatcher, with workers.
Copies(id) ==
    InQueue(cbQueue, id)
    + (IF djob.ID = id THEN 1 ELSE 0)
    + Cardinality({w \in Workers : wjob[w].ID = id})

\* C11: no two workers are inside Notify on the same job at the same time,
\* retries and the recovery scans of later starts included: a job is at any
\* time at most once in the queue, with the dispatcher or with a worker,
\* and a worker inside Notify holds a job no other worker holds.
C11_OneWorkerPerJob ==
    /\ \A w1, w2 \in Workers :
           (w1 # w2 /\ Running(w1) /\ Running(w2)) => wjob[w1].ID # wjob[w2].ID
    /\ \A w \in Workers : Running(w) <=> wjob[w] # NoJob
    /\ \A id \in Jobs : Copies(id) <= 1

C11_Witness ==
    \E w1, w2 \in Workers :
        /\ w1 # w2 /\ Running(w1) /\ Running(w2)
        /\ recovered[wjob[w1].ID] > 0
        /\ "fail" \in {hist[wjob[w1].ID][i] : i \in 1..Len(hist[wjob[w1].ID])}

WorkerHolds(id) == \E w \in Workers : wjob[w].ID = id

IsInProgress(id) ==
    HasJob(store, id) /\ store[id].CallbackState = StateInProgress

\* C12 as stated: in an execution without a crash a record is InProgress
\* only while a worker is inside Notify on the job; once the call has
\* returned the record is not InProgress.
C12_Original ==
    crashes = 0 => \A id \in Jobs : IsInProgress(id) => WorkerHolds(id)

\* C12 (amended): when a Notify call on a job has returned with its outcome
\* written (the record removed after a 2xx, the job queued again, or the job
\* marked Failed) the stored record is not InProgress; a record that is
\* InProgress while no worker is inside Notify on it is what a crash
\* mid-delivery leaves, or what a Notify call leaves whose closing store
\* write (RemoveJob, QueuePendingCallback or the SaveJob of markCbFailed)
\* failed.
C12_ForwardOutOfInProgress ==
    \A id \in Jobs :
        /\ (hist[id] # << >> /\ Last(hist[id]) = "ok") => ~HasJob(store, id)
        /\ (hist[id] # << >> /\ Last(hist[id]) = "inelig") => IsFailed(id)
        /\ (hist[id] # << >> /\ Last(hist[id]) = "fail")
               => /\ HasJob(store, id)
                  /\ store[id].CallbackState \in {StatePending, StateFailed}
        /\ (IsInProgress(id) /\ ~WorkerHolds(id))
               => /\ hist[id] # << >>
                  /\ Last(hist[id]) \in {"crash", "perr"}
                  /\ Last(hist[id]) = "crash" => crashes > 0

C12_Witness ==
    \E a, b \in Jobs :
        /\ crashes = 0
        /\ IsInProgress(a) /\ ~WorkerHolds(a) /\ Last(hist[a]) = "perr"
        /\ hist[b] = <<"fail">> /\ store[b].CallbackState = StatePending

\* The jobs in the store whose download has no outcome.
Ineligible(id) ==
    HasJob(store, id)
    /\ store[id].DownloadState \notin {StateSuccess, StateFailed}

Count(h, o) == Cardinality({i \in 1..Len(h) : h[i] = o})

\* C13: a job whose DownloadState is neither Success nor Failed is never
\* POSTed and is not retried: the first Notify call on it that runs to its
\* end marks it Failed with the invalid download state as CallbackMeta, the
\* record stays in the store, out of the queue, and no later call is made on
\* it; without a crash that is its first and only call, and its
\* CallbackCount goes beyond 1 only by the requeues of recovery scans.
C13_IneligibleFails ==
    /\ \A id \in Jobs : ~HasJob(store, id) => posts[id] > 0
    /\ \A id \in Jobs :
         Ineligible(id)
         => /\ posts[id] = 0
            /\ \A i \in 1..Len(hist[id]) : hist[id][i] \notin {"ok", "fail"}
            /\ crashes = 0 => Len(hist[id]) <= 1
            /\ store[id].CallbackCount <= 1 + recovered[id]
            /\ Count(hist[id], "inelig") <= 1
            /\ Count(hist[id], "inelig") = 1
               => /\ Last(hist[id]) = "inelig"
                  /\ IsFailed(id)
                  /\ store[id].CallbackMeta = "Invalid job download state"
                  /\ InQueue(cbQueue, id) = 0
                  /\ ~Holder(id)

C13_Witness ==
    \E a, b \in Jobs :
        /\ Ineligible(a) /\ hist[a] = <<"inelig">> /\ IsFailed(a)
        /\ store[a].CallbackCount = 1
        /\ Ineligible(b) /\ hist[b] = <<"crash", "inelig">> /\ IsFailed(b)
        /\ store[b].CallbackCount = 2

\* The job whose Notify call this step aborts at markCbInProgress.
Aborts(id) ==
    /\ Len(hist'[id]) = Len(hist[id]) + 1
    /\ Last(hist'[id]) = "abort"

\* C14: when the SaveJob of markCbInProgress fails, Notify returns at once:
\* the step sends no POST, queues nothing, removes nothing and leaves the
\* store as it was (the count stays, the job is not marked Failed), and the
\* worker is free again; from then on the job's record is as it was before
\* the call, and the job is neither in the queue nor with a worker.
C14_AbortOnSaveError ==
    /\ [][\A id \in Jobs :
            Aborts(id)
            => /\ store' = store
               /\ cbQueue' = cbQueue
               /\ posts' = posts
               /\ removed' = removed
               /\ \A w \in Workers : wjob'[w].ID # id
               /\ \E w \in Workers :
                    /\ wjob[w].ID = id
                    /\ wpc[w] = "notify"
                    /\ wpc'[w] = "idle"
                    /\ wjob[w] = store[id]]_vars
    /\ [](\A id \in Jobs :
            (hist[id] # << >> /\ Last(hist[id]) = "abort")
            => /\ HasJob(store, id)
               /\ store[id].CallbackState = StatePending
               /\ store[id].CallbackCount = Persisted(hist[id])
               /\ store[id].CallbackCount < Len(hist[id])
               /\ InQueue(cbQueue, id) = 0
               /\ ~Holder(id))

C14_Witness ==
    \E id \in Jobs :
        /\ hist[id] = <<"fail", "abort">>
        /\ store[id].CallbackCount = 1
        /\ posts[id] = 1

\* C15: a job one of whose callback state writes has failed (the SaveJob of
\* markCbInProgress, or a closing write of Notify such as the SaveJob of
\* markCbFailed) stays recoverable: as long as no later Notify call has
\* begun on it, it is in the pending-callback queue or held for delivery,
\* or its record is one the next startup scan queues again (CallbackState
\* InProgress).
C15_Recoverable ==
    \A id \in Jobs :
        (/\ hist[id] # << >>
         /\ Last(hist[id]) \in {"abort", "perr"}
         /\ HasJob(store, id))
        => \/ InQueue(cbQueue, id) > 0
           \/ Holder(id)
           \/ IsRogue(store, id)

\* The popped job the dispatcher holds, blocked on the handoff.
Waiting == IF djob # NoJob THEN 1 ELSE 0

Busy == Cardinality({w \in Pool : Running(w)})

\* C16 as stated: the jobs PopCallback has returned and whose Notify call
\* has not run to its end are never more than the workers of the pool.
C16_Original == inflight <= concurrency

\* C16 (amended): the handoff is synchronous: the dispatcher is in
\* PopCallback only when it holds no job, the step that takes the job from
\* the dispatcher gives it to a worker that was idle, and the jobs popped
\* and not finished are the ones inside Notify, at most one per worker,
\* plus at most one the dispatcher holds while it waits for a worker: at
\* most concurrency + 1.
C16_Backpressure ==
    /\ [](/\ djob # NoJob <=> dpc = "send"
          /\ inflight = Busy + Waiting
          /\ Busy <= concurrency
          /\ inflight <= concurrency + 1)
    /\ [][(djob # NoJob /\ djob' = NoJob /\ crashes' = crashes)
            => \E w \in Pool :
                 /\ wpc[w] = "idle" /\ wjob[w] = NoJob
                 /\ wpc'[w] = "notify" /\ wjob'[w] = djob
                 /\ dpc' = "select"]_vars
    /\ [][(dpc' = "pop" /\ dpc # "pop") => (dpc = "select" /\ djob = NoJob)]_vars

C16_Witness ==
    /\ Busy = concurrency
    /\ Waiting = 1
    /\ inflight = concurrency + 1

\* C17: a PopCallback that returns an error hands no job to the workers and
\* takes the dispatcher to its backoff; the backoff ends at the select of
\* the loop, the only place PopCallback is called from; so a backoff lies
\* between any two failed pops, and an error of the store leaves the loop
\* running (the channel open, the workers as they were).
C17_BackoffAfterPopError ==
    /\ [][(dpc = "pop" /\ dpc' # "pop" /\ crashes' = crashes)
            => \/ /\ dpc' = "send"
                  /\ djob' # NoJob
                  /\ cbQueue # << >> /\ djob'.ID = Head(cbQueue)
               \/ /\ dpc' = "sleep"
                  /\ djob' = NoJob
                  /\ <<work, store, closed, inflight>>'
                        = <<work, store, closed, inflight>>]_vars
    /\ [][(dpc = "sleep" /\ dpc' # "sleep" /\ crashes' = crashes)
            => dpc' = "select" /\ djob' = NoJob /\ work' = work]_vars
    /\ [][(dpc' = "pop" /\ dpc # "pop") => dpc = "select"]_vars
    /\ [](dpc \in {"sleep", "pop"} => ~closed /\ djob = NoJob)

C17_Witness ==
    /\ dpc = "sleep"
    /\ cbQueue # << >>
    /\ Busy > 0
    /\ crashes = 0
    /\ \E id \in Jobs : Len(hist[id]) = 2

\* C18: no step lowers the CallbackCount the store holds for a job: while
\* the record exists, the count after a step is the count before it or one
\* more, whatever workers, retries and recovery scans do.
C18_CountNeverDecreases ==
    [][\A id \in Jobs :
         (HasJob(store, id) /\ HasJob(store', id))
         => /\ store'[id].CallbackCount >= store[id].CallbackCount
            /\ store'[id].CallbackCount <= store[id].CallbackCount + 1]_vars

C18_Witness ==
    \E a, b \in Jobs :
        /\ HasJob(store, a) /\ store[a].CallbackCount = 3 /\ recovered[a] = 1
        /\ IsFailed(b) /\ store[b].CallbackCount = 2

\* C19: a record leaves the store only in the step of a worker that ends a
\* Notify call whose POST for that job was answered with a status from 200
\* to 299 (the RemoveJob after the POST); such a step removes that record
\* alone; every job whose record is gone was removed that way, and no
\* record of a job whose latest call failed, was not eligible, was
\* aborted or interrupted is gone.
C19_RemoveOnlyAfter2xx ==
    /\ [][\A id \in Jobs :
            (HasJob(store, id) /\ ~HasJob(store', id))
            => /\ \E w \in Pool :
                    /\ wjob[w].ID = id
                    /\ wpc[w] = "finish" /\ wpc'[w] = "idle"
                    /\ ~wres[w].err
                    /\ wres[w].status >= 200 /\ wres[w].status <= 299
               /\ id \in got2xx
               /\ Last(hist[id]) = "run" /\ Last(hist'[id]) = "ok"
               /\ DOMAIN store' = DOMAIN store \ {id}]_vars
    /\ [](\A id \in Jobs :
            /\ ~HasJob(store, id) => (id \in removed /\ id \in got2xx)
            /\ (hist[id] # << >> /\ Last(hist[id]) # "ok") => HasJob(store, id)
            /\ hist[id] = << >> => HasJob(store, id))

C19_Witness ==
    \E a, b \in Jobs :
        /\ ~HasJob(store, a) /\ hist[a] = <<"fail", "ok">>
        /\ IsFailed(b) /\ hist[b] = <<"fail", "fail">>
        /\ crashes > 0

\* C20: in a run in which every store call and every POST returns and the
\* requester takes the completion signal, a shutdown signal that is sent is
\* followed by the close of the handoff channel, the return of every
\* worker and the completion signal, wherever the dispatcher is when the
\* signal is sent: in the scan, in PopCallback, in its backoff, or blocked on
\* the handoff with every worker busy.
C20_ShutdownCompletes ==
    /\ (shut = "requested") ~> closed
    /\ (shut = "requested") ~> (\A w \in Pool : wpc[w] = "exited")
    /\ (shut = "requested") ~> (shut = "completed" /\ dpc = "done")
    /\ \A pc \in {"scan", "pop", "sleep", "send"} :
         (shut = "requested" /\ dpc = pc) ~> (shut = "completed")
    /\ (shut = "requested" /\ dpc = "send" /\ Busy = concurrency)
           ~> (shut = "completed")

C20_Witness ==
    /\ shut = "requested"
    /\ dpc = "send"
    /\ Busy = concurrency
    /\ cbQueue = << >>

====
